---- MODULE Spec2Model ----
(***************************************************************************)
(* Model of python-api/app/services/model_service.py: the ModelService     *)
(* singleton (registry available_models, cache loaded_models) as it is     *)
(* driven by request threads.  The endpoints are plain "def" FastAPI       *)
(* handlers, so they run on a thread pool: calls on the one service object *)
(* interleave between any two statements that touch shared state, and the  *)
(* service holds no lock.  A thread's position in a method is its pc.      *)
(***************************************************************************)
EXTENDS Integers, Sequences, FiniteSets, TLC

\* ------------------------------------------------------------------ bounds
NThreads == 2
MaxHandles == 2
MaxDirs == 2
MaxTextLen == 3
MaxRequests == 2
MaxTime == 3
MaxInFlight == 1
MaxKeys == 2
MaxDays == 1

Threads == 1..NThreads

\* --------------------------------------------------------------- artifacts
\* One directory visited by os.walk: its base name, its path (the components
\* under MODEL_DIR), whether it holds config.json / model_index.json, and its
\* other files in listing order, each a pair <<stem, extension>>.
Dir(base, path, config, files, index) ==
    [base |-> base, path |-> path, config |-> config, files |-> files, index |-> index]

\* file.endswith(".onnx") (line 42) and os.path.splitext(file)[0] (line 44).
IsOnnx(file) == file[2] = "onnx"
Stem(file) == file[1]

\* The artifact tree of the running service, in os.walk order (top-down).
ModelTree ==
    << Dir("models", <<>>, FALSE, << <<"m3", "onnx">> >>, FALSE),
       Dir("m1", <<"m1">>, TRUE, <<>>, FALSE),
       Dir("m2", <<"m2">>, FALSE, <<>>, TRUE) >>

\* A name no artifact resolves to.
UnknownName == "nope"
CallNames == {"m1", "m2", "m3", UnknownName}

NoHandle == 0

VARIABLES
    root_exists,       \* os.path.exists(self.model_dir)
    root_created,      \* os.makedirs(self.model_dir) has run (line 24)
    tree,              \* the directories under model_dir, in walk order
    available_models,  \* self.available_models: name -> [path, type, loaded]
    loaded_models,     \* self.loaded_models: name -> handle
    handles_made,      \* handles materialised so far (the next one's identity)
    unloaded,          \* <<name, handle>> removed by an unload_model call that has returned
    pc, op, arg,       \* per thread: position, running method, model_name
    deadline,          \* per thread: the deadline its caller works to
    hnd,               \* per thread: the handle it built (load_model) or fetched
    info,              \* per thread: model_info read at lines 85-87
    idx,               \* per thread: scan_models' position in the walk
    removed,           \* per thread: the handle its unload_model deleted
    nloads, nexecs,    \* per thread: backend loads / executions of this call
    inputs,            \* per thread: the names in run_onnx_model's input map
    fed,               \* per thread: the names passed to session.run
    result,            \* per thread: the value the call returns
    cause,             \* per thread: the failure the call logged
    listed,            \* per thread: the list get_available_models built
    request,           \* generation endpoints: the request's route and prompt
    served,            \* generation endpoints: what the service call returned
    response,          \* generation endpoints: the HTTP response
    usage,             \* the UsageLog rows committed so far
    answers,           \* the responses sent so far: route and status of each
    now,               \* time.time() / datetime.utcnow(), in clock ticks
    request_counts,    \* RateLimitMiddleware.request_counts: key -> timestamps
    admitted,          \* per key: the times at which the middleware let a request pass
    inflight,          \* per key: requests passed on by the middleware, not yet answered
    reported,          \* the rate-limit outcome of the last request the middleware ended
    users,             \* table users: id -> is_active
    api_keys,          \* table api_keys: id -> [user_id, is_active, expires_at]
    answer             \* the last API-key request (create, delete, renew, verify) and its outcome

shared == <<root_exists, root_created, tree, available_models, loaded_models,
            handles_made, unloaded>>
locals == <<pc, op, arg, deadline, hnd, info, idx, removed, nloads, nexecs, inputs,
            fed, result, cause, listed>>
\* The generation endpoints' request, as far as the service is concerned, and
\* the usage log.
keystore == <<users, api_keys, answer>>
gateway == <<now, request_counts, admitted, inflight, reported, keystore>>
endpoint == <<request, served, response, usage, answers, gateway>>
\* What no step of load_model, unload_model, scan_models or a dispatch method
\* touches.
outer == <<listed, endpoint>>
vars == <<shared, locals, endpoint>>

\* ------------------------------------------------------------ dict helpers
\* dict.setdefault in place of the assignment: an existing key keeps its value.
Put_KeepsFirst(d, k, v) == [x \in DOMAIN d \cup {k} |-> IF x \in DOMAIN d THEN d[x] ELSE v]
Put(d, k, v) == [x \in DOMAIN d \cup {k} |-> IF x = k THEN v ELSE d[x]]
Del(d, k) == [x \in DOMAIN d \ {k} |-> d[x]]

\* A descriptor's path: the directory itself (root, lines 36, 59) or a file in
\* it (os.path.join(root, file), line 45).
NoFile == <<"", "">>
DirPath(dir) == [dir |-> dir, file |-> NoFile]
FilePath(dir, file) == [dir |-> dir, file |-> file]

Descriptor(path, type) == [path |-> path, type |-> type, loaded |-> FALSE]

\* ------------------------------------------------------------- scan_models
\* The registry writes one directory causes, in the order of lines 31-62:
\* config.json, then each *.onnx file, then model_index.json.
RECURSIVE OnnxWrites(_, _)
OnnxWrites(d, files) ==
    IF files = <<>> THEN <<>>
    ELSE (IF IsOnnx(Head(files))
            THEN << [name |-> Stem(Head(files)),
                     desc |-> Descriptor(FilePath(d.path, Head(files)), "onnx")] >>
            ELSE <<>>)
         \o OnnxWrites(d, Tail(files))

\* The scan with model_index.json classified like config.json.
DirWrites_IndexAsText(d) ==
    (IF d.config
       THEN << [name |-> d.base, desc |-> Descriptor(DirPath(d.path), "transformers")] >>
       ELSE <<>>)
    \o OnnxWrites(d, d.files)
    \o (IF d.index
          THEN << [name |-> d.base, desc |-> Descriptor(DirPath(d.path), "transformers")] >>
          ELSE <<>>)

DirWrites(d) ==
    (IF d.config
       THEN << [name |-> d.base, desc |-> Descriptor(DirPath(d.path), "transformers")] >>
       ELSE <<>>)
    \o OnnxWrites(d, d.files)
    \o (IF d.index
          THEN << [name |-> d.base, desc |-> Descriptor(DirPath(d.path), "stable-diffusion")] >>
          ELSE <<>>)

RECURSIVE ScanWrites(_)
ScanWrites(t) ==
    IF t = <<>> THEN <<>> ELSE DirWrites(Head(t)) \o ScanWrites(Tail(t))

RECURSIVE ApplyWrites(_, _)
ApplyWrites(reg, ws) ==
    IF ws = <<>> THEN reg
    ELSE ApplyWrites(Put(reg, Head(ws).name, Head(ws).desc), Tail(ws))

\* ------------------------------------------------- rate limit: the keys
\* The value of `api_key` at security.py line 57: None when the request has
\* neither header nor query parameter, otherwise a string, here its text up to
\* and including the first underscore and the rest.
NoKey == [given |-> FALSE, prefix |-> "", rest |-> ""]
KeyString(prefix, rest) == [given |-> TRUE, prefix |-> prefix, rest |-> rest]
\* `not api_key` (line 59): None and the empty string.
Absent(key) == ~key.given \/ (key.prefix = "" /\ key.rest = "")
\* api_key.startswith(p) for a p that ends in its only underscore.
StartsWith(key, p) == key.prefix = p

\* The limits of config.py lines 43-47 (10, 50, 100, 200 and 1000 requests per
\* minute), scaled down in their order, and the minute of line 82 as two
\* clock ticks.
RATE_LIMIT_FREE_TIER == 1
RATE_LIMIT_STARTER == RATE_LIMIT_FREE_TIER + 1
RATE_LIMIT_DEFAULT == RATE_LIMIT_STARTER + 1
RATE_LIMIT_PRO == RATE_LIMIT_DEFAULT + 1
RATE_LIMIT_ENTERPRISE == RATE_LIMIT_PRO + 1
Window == 2

\* security.py lines 59-74: max_requests for the request's key.
MaxRequestsOf(key) ==
    IF Absent(key) THEN RATE_LIMIT_DEFAULT
    ELSE IF StartsWith(key, "test_") THEN RATE_LIMIT_FREE_TIER
    ELSE IF StartsWith(key, "starter_") THEN RATE_LIMIT_STARTER
    ELSE IF StartsWith(key, "pro_") THEN RATE_LIMIT_PRO
    ELSE IF StartsWith(key, "enterprise_") THEN RATE_LIMIT_ENTERPRISE
    ELSE RATE_LIMIT_DEFAULT

\* The keys requests come with: none, and a free-tier key.
RequestKeys == {NoKey, KeyString("test_", "a")}

NoReport == [status |-> "none", limit |-> 0, remaining |-> 0]

\* ------------------------------------------------------- the API keys
Users == {1, 2}
\* A nullable DateTime column: NULL, or a time in days.
Unset == [set |-> FALSE, at |-> 0]
At(time) == [set |-> TRUE, at |-> time]
\* models/user.py lines 60-70: a row of api_keys (is_active defaults to True).
\* The key string is unique (line 65): a row's id stands for it.
ApiKey(user_id, expires_at) ==
    [user_id |-> user_id, is_active |-> TRUE, expires_at |-> expires_at]
NoAnswer == [op |-> "none", user |-> 0, id |-> 0, status |-> "none"]
Answered(op_, user, id, status) == [op |-> op_, user |-> user, id |-> id, status |-> status]

\* An empty key table, every user active.
NoKeys ==
    /\ users = [u \in Users |-> TRUE]
    /\ api_keys = <<>>
    /\ answer = NoAnswer

\* RateLimitMiddleware.__init__ (security.py lines 45-48): request_counts is a
\* defaultdict(list), every key reads as the empty list.
GatewayStarts ==
    /\ now = 0
    /\ request_counts = [k \in RequestKeys |-> <<>>]
    /\ admitted = [k \in RequestKeys |-> <<>>]
    /\ inflight = [k \in RequestKeys |-> 0]
    /\ reported = NoReport
    /\ NoKeys

\* ------------------------------------------------------------------- Init
\* ModelService.__init__ (run once, at import): empty dicts, then scan_models.
NoThreadRuns ==
    /\ pc = [t \in Threads |-> "idle"]
    /\ op = [t \in Threads |-> "none"]
    /\ arg = [t \in Threads |-> UnknownName]
    /\ deadline = [t \in Threads |-> "none"]
    /\ hnd = [t \in Threads |-> NoHandle]
    /\ info = [t \in Threads |-> "none"]
    /\ idx = [t \in Threads |-> 0]
    /\ removed = [t \in Threads |-> NoHandle]
    /\ nloads = [t \in Threads |-> 0]
    /\ nexecs = [t \in Threads |-> 0]
    /\ inputs = [t \in Threads |-> {}]
    /\ fed = [t \in Threads |-> {}]
    /\ result = [t \in Threads |-> "none"]
    /\ cause = [t \in Threads |-> "none"]
    /\ listed = [t \in Threads |-> <<>>]

\* No request is at a generation endpoint.
NoRequest == [active |-> FALSE, route |-> "none", prompt |-> <<>>]
NotServed == [kind |-> "pending", text |-> <<>>]
NoResponse == [status |-> "none", text |-> <<>>, tokens_used |-> 0]
NoEndpointRequest ==
    /\ request = NoRequest
    /\ served = NotServed
    /\ response = NoResponse
    /\ usage = <<>>
    /\ answers = <<>>
    /\ GatewayStarts

Init ==
    /\ root_exists = TRUE
    /\ root_created = FALSE
    /\ tree = ModelTree
    /\ available_models = ApplyWrites(<<>>, ScanWrites(ModelTree))
    /\ loaded_models = <<>>
    /\ handles_made = 0
    /\ unloaded = {}
    /\ NoThreadRuns
    /\ NoEndpointRequest

\* ---------------------------------------------------------------- helpers
Set(f, t, v) == [f EXCEPT ![t] = v]

Idle(t) == pc[t] = "idle"
InFlight(t) == pc[t] # "idle"

\* The modality each dispatch method accepts (lines 155, 192, 224).
Wanted(o) ==
    CASE o = "generate_text" -> "transformers"
      [] o = "generate_image" -> "stable-diffusion"
      [] o = "run_onnx_model" -> "onnx"
      [] OTHER -> "none"

DispatchOps == {"generate_text", "generate_image", "run_onnx_model"}
LoadingOps == DispatchOps \cup {"load_model"}

\* A call that may still materialise a handle: the model stops admitting such
\* calls when the handle identities of MaxHandles would run out.
MayLoad(u) == InFlight(u) /\ op[u] \in LoadingOps /\ nloads[u] = 0
HandlesLeft == handles_made + Cardinality({u \in Threads : MayLoad(u)}) < MaxHandles

\* The deadline the caller of method o works to: "tight" is one that ends
\* before a cold load of the model would.  generate_image(self, model_name,
\* prompt) takes no deadline (line 185), so the call runs the same either way.
DeadlinesOf(o) == IF o = "generate_image" THEN {"none", "tight"} ELSE {"none"}

\* A request thread enters method o with model_name n.  Entering has no effect
\* on the service, so each Call action below runs the method up to its first
\* access that another thread can interfere with.
Enter(t, o, n) ==
    /\ Idle(t)
    /\ op' = Set(op, t, o)
    /\ arg' = Set(arg, t, n)
    /\ \E d \in DeadlinesOf(o) : deadline' = Set(deadline, t, d)

\* The call returns to its caller; the thread's frame is gone.  An
\* unload_model that has returned has completed: the handle it deleted counts
\* as unloaded from here on.
Return(t) ==
    /\ pc[t] = "ret"
    /\ unloaded' = IF removed[t] # NoHandle
                     THEN unloaded \cup {<<arg[t], removed[t]>>}
                     ELSE unloaded
    /\ pc' = Set(pc, t, "idle")
    /\ op' = Set(op, t, "none")
    /\ arg' = Set(arg, t, UnknownName)
    /\ hnd' = Set(hnd, t, NoHandle)
    /\ info' = Set(info, t, "none")
    /\ idx' = Set(idx, t, 0)
    /\ removed' = Set(removed, t, NoHandle)
    /\ nloads' = Set(nloads, t, 0)
    /\ nexecs' = Set(nexecs, t, 0)
    /\ inputs' = Set(inputs, t, {})
    /\ fed' = Set(fed, t, {})
    /\ result' = Set(result, t, "none")
    /\ deadline' = Set(deadline, t, "none")
    /\ cause' = Set(cause, t, "none")
    /\ listed' = Set(listed, t, <<>>)
    /\ UNCHANGED <<root_exists, root_created, tree, available_models, loaded_models,
                   handles_made, endpoint>>

\* -------------------------------------------------------------- load_model
\* Where control goes when load_model returns `ok` in a call of method o: to
\* the caller of load_model itself, or back into the dispatch method that
\* called it (lines 151-152, 188-189, 220-221: a False makes it return None).
LoadReturns(t, o, ok) ==
    IF o = "load_model"
      THEN /\ pc' = Set(pc, t, "ret")
           /\ result' = Set(result, t, IF ok THEN "True" ELSE "False")
      ELSE IF ok
        THEN /\ pc' = Set(pc, t, "g_type")
             /\ UNCHANGED result
        ELSE /\ pc' = Set(pc, t, "ret")
             /\ result' = Set(result, t, "None")

\* load_model without the check of lines 81-83: a name whose loaded flag is
\* set goes to the backend again.
LoadModelHead_Reloads(t, o, n) ==
    IF n \notin DOMAIN available_models
      THEN /\ LoadReturns(t, o, FALSE)
           /\ cause' = Set(cause, t, "not_found")
           /\ UNCHANGED <<info, nloads, handles_made, hnd>>
      ELSE /\ info' = Set(info, t, available_models[n].type)
           /\ nloads' = Set(nloads, t, nloads[t] + 1)
           /\ \/ /\ handles_made' = handles_made + 1
                 /\ hnd' = Set(hnd, t, handles_made + 1)
                 /\ pc' = Set(pc, t, "lm_store")
                 /\ UNCHANGED <<result, cause>>
              \/ /\ pc' = Set(pc, t, "lm_failed")
                 /\ UNCHANGED <<handles_made, hnd, result, cause>>

\* load_model without the lookup of lines 77-79: an unknown name goes to the
\* backend like a registered one that is not loaded.
LoadModelHead_NoLookup(t, o, n) ==
    IF n \in DOMAIN available_models /\ available_models[n].loaded
      THEN /\ LoadReturns(t, o, TRUE)
           /\ UNCHANGED <<info, nloads, handles_made, hnd, cause>>
      ELSE /\ info' = Set(info, t, IF n \in DOMAIN available_models
                                     THEN available_models[n].type ELSE "none")
           /\ nloads' = Set(nloads, t, nloads[t] + 1)
           /\ \/ /\ handles_made' = handles_made + 1
                 /\ hnd' = Set(hnd, t, handles_made + 1)
                 /\ pc' = Set(pc, t, "lm_store")
                 /\ UNCHANGED <<result, cause>>
              \/ /\ pc' = Set(pc, t, "lm_failed")
                 /\ UNCHANGED <<handles_made, hnd, result, cause>>

\* lines 77-112 for name n in a call of method o: an unknown name returns
\* False; a set loaded flag returns True; otherwise type and path are read and
\* the backend materialises the model (from_pretrained / InferenceSession /
\* pipeline.to), which yields a new handle or raises into the except block of
\* line 121.  The backend works on the thread's own data, so the check of the
\* flag and the backend's run are one step; the handle is published, and the
\* flag set, in the later steps LmStore and LmFlag.
LoadModelHead(t, o, n) ==
    IF n \notin DOMAIN available_models
      THEN /\ LoadReturns(t, o, FALSE)
           /\ cause' = Set(cause, t, "not_found")
           /\ UNCHANGED <<info, nloads, handles_made, hnd>>
      ELSE IF available_models[n].loaded
        THEN /\ LoadReturns(t, o, TRUE)
             /\ UNCHANGED <<info, nloads, handles_made, hnd, cause>>
        ELSE /\ info' = Set(info, t, available_models[n].type)
             /\ nloads' = Set(nloads, t, nloads[t] + 1)
             /\ \/ /\ handles_made' = handles_made + 1
                   /\ hnd' = Set(hnd, t, handles_made + 1)
                   /\ pc' = Set(pc, t, "lm_store")
                   /\ UNCHANGED <<result, cause>>
                \/ /\ pc' = Set(pc, t, "lm_failed")
                   /\ UNCHANGED <<handles_made, hnd, result, cause>>

\* load_model(n) is called by a request thread.
CallLoadModel(t) ==
    \E n \in CallNames :
        /\ HandlesLeft
        /\ Enter(t, "load_model", n)
        /\ LoadModelHead(t, "load_model", n)
        /\ UNCHANGED <<root_exists, root_created, tree, outer, available_models,
                   loaded_models, unloaded,
                       idx, removed, nexecs, inputs, fed>>

\* load_model(n) is called by a dispatch method (lines 151, 188, 220).
LmHead(t) ==
    /\ pc[t] = "lm_head"
    /\ LoadModelHead(t, op[t], arg[t])
    /\ UNCHANGED <<root_exists, root_created, tree, outer, available_models,
                   loaded_models, unloaded,
                   op, arg, deadline, idx, removed, nexecs, inputs, fed>>

\* A dispatch method that calls load_model a second time when the first call
\* returned False.
LmFailed_Retries(t) ==
    /\ pc[t] = "lm_failed"
    /\ cause' = Set(cause, t, "load_failed")
    /\ IF op[t] \in DispatchOps /\ nloads[t] < 2
         THEN pc' = Set(pc, t, "lm_head") /\ UNCHANGED result
         ELSE LoadReturns(t, op[t], FALSE)
    /\ UNCHANGED <<shared, outer, op, arg, deadline, hnd, info, idx, removed, nloads, nexecs, inputs, fed>>

\* lines 121-123: the failure is logged and load_model returns False.
LmFailed(t) ==
    /\ pc[t] = "lm_failed"
    /\ LoadReturns(t, op[t], FALSE)
    /\ cause' = Set(cause, t, "load_failed")
    /\ UNCHANGED <<shared, outer, op, arg, deadline, hnd, info, idx, removed, nloads, nexecs, inputs, fed>>

\* lines 94, 102, 113: self.loaded_models[model_name] = {...}
LmStore(t) ==
    /\ pc[t] = "lm_store"
    /\ loaded_models' = Put(loaded_models, arg[t], hnd[t])
    /\ pc' = Set(pc, t, "lm_flag")
    /\ UNCHANGED <<root_exists, root_created, tree, outer, available_models, handles_made, unloaded,
                   op, arg, deadline, hnd, info, idx, removed, nloads, nexecs, inputs, fed, result, cause>>

\* lines 117-119: self.available_models[model_name]["loaded"] = True; return True
LmFlag(t) ==
    /\ pc[t] = "lm_flag"
    /\ available_models' = [available_models EXCEPT ![arg[t]].loaded = TRUE]
    /\ LoadReturns(t, op[t], TRUE)
    /\ UNCHANGED <<root_exists, root_created, tree, outer, loaded_models, handles_made,
                   unloaded, op, arg, deadline, hnd, info, idx, removed, nloads, nexecs, inputs, fed,
                   cause>>

\* ------------------------------------------------------------ unload_model
\* unload_model without the check of lines 127-129, written as
\* loaded_models.pop(name, None): a name with no cache entry has its flag
\* cleared and the call returns True.
CallUnloadModel_Lenient(t) ==
    \E n \in CallNames :
        /\ Enter(t, "unload_model", n)
        /\ IF n \notin DOMAIN loaded_models
             THEN /\ pc' = Set(pc, t, "ret")
                  /\ result' = Set(result, t, "True")
                  /\ UNCHANGED cause
                  /\ available_models' =
                        IF n \in DOMAIN available_models
                          THEN [available_models EXCEPT ![n].loaded = FALSE]
                          ELSE available_models
             ELSE /\ pc' = Set(pc, t, "ul_del")
                  /\ UNCHANGED <<result, cause, available_models>>
        /\ UNCHANGED <<root_exists, root_created, tree, outer, loaded_models, handles_made, unloaded,
                       hnd, info, idx, removed, nloads, nexecs, inputs, fed>>

\* lines 127-129: unload_model(n) is called; no cache entry returns False.
CallUnloadModel(t) ==
    \E n \in CallNames :
        /\ Enter(t, "unload_model", n)
        /\ IF n \notin DOMAIN loaded_models
             THEN /\ pc' = Set(pc, t, "ret")
                  /\ result' = Set(result, t, "False")
                  /\ cause' = Set(cause, t, "not_loaded")
             ELSE /\ pc' = Set(pc, t, "ul_del")
                  /\ UNCHANGED <<result, cause>>
        /\ UNCHANGED <<shared, outer, hnd, info, idx, removed, nloads, nexecs, inputs, fed>>

\* line 133: del self.loaded_models[model_name]; a key another thread has
\* deleted meanwhile raises KeyError, caught at lines 144-146.
UlDel(t) ==
    /\ pc[t] = "ul_del"
    /\ IF arg[t] \in DOMAIN loaded_models
         THEN /\ loaded_models' = Del(loaded_models, arg[t])
              /\ removed' = Set(removed, t, loaded_models[arg[t]])
              /\ pc' = Set(pc, t, "ul_flag")
              /\ UNCHANGED <<result, cause>>
         ELSE /\ pc' = Set(pc, t, "ret")
              /\ result' = Set(result, t, "False")
              /\ cause' = Set(cause, t, "unload_failed")
              /\ UNCHANGED <<loaded_models, removed>>
    /\ UNCHANGED <<root_exists, root_created, tree, outer, available_models, handles_made, unloaded,
                   op, arg, deadline, hnd, info, idx, nloads, nexecs, inputs, fed>>

\* unload_model without line 134: the loaded flag stays set.
UlFlag_KeepsFlag(t) ==
    /\ pc[t] = "ul_flag"
    /\ pc' = Set(pc, t, "ret")
    /\ \E teardown_ok \in BOOLEAN :
         IF teardown_ok
           THEN result' = Set(result, t, "True") /\ UNCHANGED cause
           ELSE /\ result' = Set(result, t, "False")
                /\ cause' = Set(cause, t, "unload_failed")
    /\ UNCHANGED <<shared, outer, op, arg, deadline, hnd, info, idx, removed, nloads, nexecs, inputs, fed>>

\* lines 134-146: the flag is cleared, then gc.collect() and
\* torch.cuda.empty_cache() run; if the teardown raises, the call returns False.
UlFlag(t) ==
    /\ pc[t] = "ul_flag"
    /\ available_models' = [available_models EXCEPT ![arg[t]].loaded = FALSE]
    /\ pc' = Set(pc, t, "ret")
    /\ \E teardown_ok \in BOOLEAN :
         IF teardown_ok
           THEN result' = Set(result, t, "True") /\ UNCHANGED cause
           ELSE /\ result' = Set(result, t, "False")
                /\ cause' = Set(cause, t, "unload_failed")
    /\ UNCHANGED <<root_exists, root_created, tree, outer, loaded_models, handles_made, unloaded,
                   op, arg, deadline, hnd, info, idx, removed, nloads, nexecs, inputs, fed>>

\* ------------------------- generate_text / generate_image / run_onnx_model
\* lines 150-151, 187-188, 219-220 for a call of method o: load_model is
\* called when the name has no cache entry.
Dispatch(t, o) ==
    \E n \in CallNames :
        /\ HandlesLeft
        /\ Enter(t, o, n)
        /\ pc' = Set(pc, t, IF n \notin DOMAIN loaded_models THEN "lm_head" ELSE "g_type")
        /\ UNCHANGED <<shared, outer, hnd, info, idx, removed, nloads, nexecs, inputs, fed, result, cause>>

CallGenerateText(t) == Dispatch(t, "generate_text")

CallGenerateImage(t) == Dispatch(t, "generate_image")

CallRunOnnxModel(t) == Dispatch(t, "run_onnx_model")

\* lines 154-157, 191-194, 223-226: the descriptor's type against the method's.
\* self.available_models[model_name] stands outside the try block: for a name
\* with no descriptor it raises KeyError out of the method.
GType(t) ==
    /\ pc[t] = "g_type"
    /\ IF arg[t] \notin DOMAIN available_models
         THEN /\ pc' = Set(pc, t, "ret")
              /\ result' = Set(result, t, "raised")
              /\ UNCHANGED cause
         ELSE IF available_models[arg[t]].type # Wanted(op[t])
           THEN /\ pc' = Set(pc, t, "ret")
                /\ result' = Set(result, t, "None")
                /\ cause' = Set(cause, t, "type_mismatch")
           ELSE /\ pc' = Set(pc, t, "g_fetch")
                /\ UNCHANGED <<result, cause>>
    /\ UNCHANGED <<shared, outer, op, arg, deadline, hnd, info, idx, removed, nloads, nexecs, inputs, fed>>

\* The handle fetch written before the try block: a missing key raises
\* KeyError out of the method.
GFetch_Uncaught(t) ==
    /\ pc[t] = "g_fetch"
    /\ IF arg[t] \in DOMAIN loaded_models
         THEN /\ hnd' = Set(hnd, t, loaded_models[arg[t]])
              /\ pc' = Set(pc, t, "g_exec")
              /\ UNCHANGED <<result, cause>>
         ELSE /\ pc' = Set(pc, t, "ret")
              /\ result' = Set(result, t, "raised")
              /\ UNCHANGED <<hnd, cause>>
    /\ UNCHANGED <<shared, outer, op, arg, deadline, info, idx, removed, nloads, nexecs, inputs, fed>>

\* lines 160, 197, 229: self.loaded_models[model_name]; a missing key raises
\* KeyError inside the try, so the call returns None.
GFetch(t) ==
    /\ pc[t] = "g_fetch"
    /\ IF arg[t] \in DOMAIN loaded_models
         THEN /\ hnd' = Set(hnd, t, loaded_models[arg[t]])
              /\ pc' = Set(pc, t, "g_exec")
              /\ UNCHANGED <<result, cause>>
         ELSE /\ pc' = Set(pc, t, "ret")
              /\ result' = Set(result, t, "None")
              /\ cause' = Set(cause, t, "inference_failed")
              /\ UNCHANGED hnd
    /\ UNCHANGED <<shared, outer, op, arg, deadline, info, idx, removed, nloads, nexecs, inputs, fed>>

\* The input names of the ONNX session (session.get_inputs(), line 232) and
\* the names a caller's input map may hold: both required ones, and one the
\* session does not know.
RequiredInputs == {"x", "y"}
InputNames == RequiredInputs \cup {"z"}

\* lines 161-179, 200-211, 244-251: the backend runs on the fetched handle and
\* yields a value, or raises and the call returns None (lines 181-183,
\* 213-215, 253-255).
BackendRuns(t) ==
    /\ nexecs' = Set(nexecs, t, nexecs[t] + 1)
    /\ \E exec_ok \in BOOLEAN :
         IF exec_ok
           THEN result' = Set(result, t, "value") /\ UNCHANGED cause
           ELSE /\ result' = Set(result, t, "None")
                /\ cause' = Set(cause, t, "inference_failed")

\* run_onnx_model with session.run(None, inputs): the caller's whole input map
\* is passed on.
GExec_FeedsAll(t) ==
    /\ pc[t] = "g_exec"
    /\ pc' = Set(pc, t, "ret")
    /\ IF op[t] = "run_onnx_model"
         THEN \E supplied \in SUBSET InputNames :
                /\ inputs' = Set(inputs, t, supplied)
                /\ IF RequiredInputs \subseteq supplied
                     THEN /\ fed' = Set(fed, t, supplied)
                          /\ BackendRuns(t)
                     ELSE /\ result' = Set(result, t, "None")
                          /\ cause' = Set(cause, t, "missing_input")
                          /\ UNCHANGED <<fed, nexecs>>
         ELSE /\ BackendRuns(t)
              /\ UNCHANGED <<inputs, fed>>
    /\ UNCHANGED <<shared, outer, op, arg, deadline, hnd, info, idx, removed, nloads>>

\* Dispatch methods whose except block evicts the model: a failed execution
\* deletes the cache entry and clears the loaded flag.
GExec_EvictsOnFailure(t) ==
    /\ pc[t] = "g_exec"
    /\ pc' = Set(pc, t, "ret")
    /\ IF op[t] = "run_onnx_model"
         THEN \E supplied \in SUBSET InputNames :
                /\ inputs' = Set(inputs, t, supplied)
                /\ IF RequiredInputs \subseteq supplied
                     THEN /\ fed' = Set(fed, t, RequiredInputs)
                          /\ BackendRuns(t)
                     ELSE /\ result' = Set(result, t, "None")
                          /\ cause' = Set(cause, t, "missing_input")
                          /\ UNCHANGED <<fed, nexecs>>
         ELSE /\ BackendRuns(t)
              /\ UNCHANGED <<inputs, fed>>
    /\ IF result'[t] = "None" /\ arg[t] \in DOMAIN loaded_models
         THEN /\ loaded_models' = Del(loaded_models, arg[t])
              /\ available_models' = [available_models EXCEPT ![arg[t]].loaded = FALSE]
         ELSE UNCHANGED <<loaded_models, available_models>>
    /\ UNCHANGED <<root_exists, root_created, tree, handles_made, unloaded, outer,
                   op, arg, deadline, hnd, info, idx, removed, nloads>>

\* The execution step of a dispatch method.  generate_text and generate_image
\* run the backend on the prompt.  run_onnx_model (lines 232-244) takes the
\* caller's input map, which nothing reads before this step: if a name the
\* session requires is missing from it the call logs that and returns None
\* (lines 239-241) without session.run; otherwise session.run gets the
\* required names and only those (lines 236-238, 244).
GExec(t) ==
    /\ pc[t] = "g_exec"
    /\ pc' = Set(pc, t, "ret")
    /\ IF op[t] = "run_onnx_model"
         THEN \E supplied \in SUBSET InputNames :
                /\ inputs' = Set(inputs, t, supplied)
                /\ IF RequiredInputs \subseteq supplied
                     THEN /\ fed' = Set(fed, t, RequiredInputs)
                          /\ BackendRuns(t)
                     ELSE /\ result' = Set(result, t, "None")
                          /\ cause' = Set(cause, t, "missing_input")
                          /\ UNCHANGED <<fed, nexecs>>
         ELSE /\ BackendRuns(t)
              /\ UNCHANGED <<inputs, fed>>
    /\ UNCHANGED <<shared, outer, op, arg, deadline, hnd, info, idx, removed, nloads>>

\* ------------------------------------------------------------- scan_models
\* scan_models without os.makedirs (line 24): a missing root stays missing.
CallScanModels_NoMakedirs(t) ==
    /\ Enter(t, "scan_models", UnknownName)
    /\ IF ~root_exists
         THEN /\ pc' = Set(pc, t, "ret")
              /\ result' = Set(result, t, "None")
              /\ UNCHANGED idx
         ELSE IF ScanWrites(tree) = <<>>
                THEN /\ pc' = Set(pc, t, "ret")
                     /\ result' = Set(result, t, "None")
                     /\ UNCHANGED idx
                ELSE /\ pc' = Set(pc, t, "sc_walk")
                     /\ idx' = Set(idx, t, 1)
                     /\ UNCHANGED result
    /\ UNCHANGED <<root_exists, root_created, tree, outer, available_models, loaded_models,
                   handles_made, unloaded, hnd, info, removed, nloads, nexecs, inputs, fed, cause>>

\* lines 23-29: scan_models() is called; a missing root is created and the
\* scan ends, otherwise the walk starts.
CallScanModels(t) ==
    /\ Enter(t, "scan_models", UnknownName)
    /\ IF ~root_exists
         THEN /\ root_exists' = TRUE
              /\ root_created' = TRUE
              /\ pc' = Set(pc, t, "ret")
              /\ result' = Set(result, t, "None")
              /\ UNCHANGED idx
         ELSE /\ UNCHANGED <<root_exists, root_created>>
              /\ IF ScanWrites(tree) = <<>>
                   THEN /\ pc' = Set(pc, t, "ret")
                        /\ result' = Set(result, t, "None")
                        /\ UNCHANGED idx
                   ELSE /\ pc' = Set(pc, t, "sc_walk")
                        /\ idx' = Set(idx, t, 1)
                        /\ UNCHANGED result
    /\ UNCHANGED <<tree, outer, available_models, loaded_models, handles_made, unloaded,
                   hnd, info, removed, nloads, nexecs, inputs, fed, cause>>

\* lines 34, 46, 57: self.available_models[model_name] = {..., "loaded": False},
\* one artifact at a time, in walk order.
ScWalk(t) ==
    /\ pc[t] = "sc_walk"
    /\ LET ws == ScanWrites(tree)
           w == ws[idx[t]]
       IN /\ available_models' = Put(available_models, w.name, w.desc)
          /\ IF idx[t] = Len(ws)
               THEN /\ pc' = Set(pc, t, "ret")
                    /\ result' = Set(result, t, "None")
                    /\ idx' = Set(idx, t, 0)
               ELSE /\ idx' = Set(idx, t, idx[t] + 1)
                    /\ UNCHANGED <<pc, result>>
    /\ UNCHANGED <<root_exists, root_created, tree, outer, loaded_models, handles_made,
                   unloaded, op, arg, deadline, hnd, info, removed, nloads, nexecs, inputs, fed, cause>>

\* ---------------------------------------------------- get_available_models
\* The keys of the registry in dict order, the order of their first insertion:
\* the names of the scan's writes, each at its first occurrence.
RECURSIVE KeyOrder(_, _, _)
KeyOrder(reg, ws, seen) ==
    IF ws = <<>> THEN <<>>
    ELSE LET n == Head(ws).name
         IN (IF n \in DOMAIN reg /\ n \notin seen THEN <<n>> ELSE <<>>)
            \o KeyOrder(reg, Tail(ws), seen \cup {n})

\* lines 66-73: one {name, type, loaded} per item of available_models.
Listing(reg) ==
    LET ks == KeyOrder(reg, ScanWrites(tree), {})
    IN [i \in 1..Len(ks) |->
          [name |-> ks[i], type |-> reg[ks[i]].type, loaded |-> reg[ks[i]].loaded]]

\* get_available_models() is called while no other call is in flight, so the
\* comprehension runs as one step.
CallGetAvailableModels(t) ==
    /\ \A u \in Threads : Idle(u)
    /\ Enter(t, "get_available_models", UnknownName)
    /\ listed' = Set(listed, t, Listing(available_models))
    /\ pc' = Set(pc, t, "ret")
    /\ result' = Set(result, t, "list")
    /\ UNCHANGED <<shared, endpoint, hnd, info, idx, removed, nloads, nexecs, inputs, fed, cause>>

\* ---------------------------------------------------------- specification
Step(t) ==
    \/ CallLoadModel(t)
    \/ CallUnloadModel(t)
    \/ CallGenerateText(t)
    \/ CallGenerateImage(t)
    \/ CallRunOnnxModel(t)
    \/ CallScanModels(t)
    \/ LmHead(t)
    \/ LmFailed(t)
    \/ LmStore(t)
    \/ LmFlag(t)
    \/ UlDel(t)
    \/ UlFlag(t)
    \/ GType(t)
    \/ GFetch(t)
    \/ GExec(t)
    \/ ScWalk(t)
    \/ Return(t)

\* Request threads run concurrently on the one service object.
Next == \E t \in Threads : Step(t)

Spec == Init /\ [][Next]_vars

\* One call at a time: a call starts only when no call is in flight.
NoneInFlight == \A u \in Threads : Idle(u)

SeqCallLoadModel(t) == NoneInFlight /\ CallLoadModel(t)

SeqCallUnloadModel(t) == NoneInFlight /\ CallUnloadModel(t)

SeqCallGenerateText(t) == NoneInFlight /\ CallGenerateText(t)

SeqCallGenerateImage(t) == NoneInFlight /\ CallGenerateImage(t)

SeqCallRunOnnxModel(t) == NoneInFlight /\ CallRunOnnxModel(t)

SeqCallScanModels(t) == NoneInFlight /\ CallScanModels(t)

SeqCallGetAvailableModels(t) == NoneInFlight /\ CallGetAvailableModels(t)

SeqStep(t) ==
    \/ SeqCallLoadModel(t)
    \/ SeqCallUnloadModel(t)
    \/ SeqCallGenerateText(t)
    \/ SeqCallGenerateImage(t)
    \/ SeqCallRunOnnxModel(t)
    \/ SeqCallScanModels(t)
    \/ SeqCallGetAvailableModels(t)
    \/ LmHead(t)
    \/ LmFailed(t)
    \/ LmStore(t)
    \/ LmFlag(t)
    \/ UlDel(t)
    \/ UlFlag(t)
    \/ GType(t)
    \/ GFetch(t)
    \/ GExec(t)
    \/ ScWalk(t)
    \/ Return(t)

SeqNext == \E t \in Threads : SeqStep(t)

SeqSpec == Init /\ [][SeqNext]_vars

\* ------------------------------------------------- scanning artifact trees
\* The directories a model root may hold: the root itself, a/ and x/a/ (two
\* directories of one base name), each with or without config.json and
\* model_index.json, and with no further file, with a.onnx, or with b.onnx
\* and b.txt.
PathChoices == {<<>>, <<"a">>, <<"x", "a">>}
FileChoices == {<<>>, << <<"a", "onnx">> >>, << <<"b", "onnx">>, <<"b", "txt">> >>}
\* os.path.basename(root) (lines 33, 56); the root is MODEL_DIR = "models".
BaseName(path) == IF path = <<>> THEN "models" ELSE path[Len(path)]
DirChoices ==
    {Dir(BaseName(p), p, c, f, i) :
        p \in PathChoices, c \in BOOLEAN, f \in FileChoices, i \in BOOLEAN}

\* os.walk visits each directory once, the root first.
WalkOrder(tr) ==
    /\ \A i, j \in DOMAIN tr : tr[i].path = tr[j].path => i = j
    /\ \A i \in DOMAIN tr : tr[i].path = <<>> => i = 1

\* The walks of at most MaxDirs directories.
Trees ==
    UNION {{tr \in [1..k -> DirChoices] : WalkOrder(tr)} : k \in 0..MaxDirs}

\* The thread that imports the module and so constructs the service.
Main == CHOOSE t \in Threads : TRUE

\* ModelService.__init__ at line 16, before its scan_models(): the root may
\* be missing (then it holds nothing), or hold any tree.
ScanInit ==
    /\ root_exists \in BOOLEAN
    /\ root_created = FALSE
    /\ tree \in (IF root_exists THEN Trees ELSE {<<>>})
    /\ available_models = <<>>
    /\ loaded_models = <<>>
    /\ handles_made = 0
    /\ unloaded = {}
    /\ NoThreadRuns
    /\ NoEndpointRequest

\* Model artifacts are put under an empty root between two calls.
AddArtifacts ==
    /\ root_exists
    /\ tree = <<>>
    /\ \A t \in Threads : Idle(t)
    /\ tree' \in Trees \ {<<>>}
    /\ UNCHANGED <<root_exists, root_created, available_models, loaded_models,
                   handles_made, unloaded, locals, endpoint>>

\* The constructor's scan, and the scans and listings called after it.
ScanNext ==
    \/ CallScanModels(Main)
    \/ ScWalk(Main)
    \/ CallGetAvailableModels(Main)
    \/ Return(Main)
    \/ AddArtifacts

ScanSpec == ScanInit /\ [][ScanNext]_vars

\* ------------------------------------------------ listing during a scan
\* A request thread other than the scanning one.
Reader == CHOOSE t \in Threads : t # Main

\* get_available_models() is called while scan_models is between two of its
\* writes.  The comprehension of lines 66-73 is taken as one step, the reading
\* most favourable to the reader: it sees the registry as one write left it.
ListWhileScanning(t) ==
    /\ \E u \in Threads : pc[u] = "sc_walk"
    /\ Enter(t, "get_available_models", UnknownName)
    /\ listed' = Set(listed, t, Listing(available_models))
    /\ pc' = Set(pc, t, "ret")
    /\ result' = Set(result, t, "list")
    /\ UNCHANGED <<shared, endpoint, hnd, info, idx, removed, nloads, nexecs, inputs, fed,
                   cause>>

\* One thread scans any tree, as the constructor does and as any later caller
\* of scan_models does; another lists, between scans or during one.
ListNext ==
    \/ CallScanModels(Main)
    \/ ScWalk(Main)
    \/ Return(Main)
    \/ CallGetAvailableModels(Reader)
    \/ ListWhileScanning(Reader)
    \/ Return(Reader)

ListSpec == ScanInit /\ [][ListNext]_vars

\* ------------------------------------------- the text-generation endpoint
\* Text is a sequence of characters: a letter, a space, a tab.
Whitespace == {" ", "\t"}
Alphabet == {"a"} \cup Whitespace
Texts == UNION {[1..k -> Alphabet] : k \in 0..MaxTextLen}

\* str.split(" "): every single space separates, empty strings are kept.
RECURSIVE SplitOnSpace(_, _)
SplitOnSpace(s, word) ==
    IF s = <<>> THEN <<word>>
    ELSE IF Head(s) = " "
      THEN <<word>> \o SplitOnSpace(Tail(s), <<>>)
      ELSE SplitOnSpace(Tail(s), Append(word, Head(s)))

\* str.split(): runs of whitespace separate, no empty string is returned.
\* `word` is the word being read.
RECURSIVE SplitFrom(_, _)
SplitFrom(s, word) ==
    IF s = <<>> THEN (IF word = <<>> THEN <<>> ELSE <<word>>)
    ELSE IF Head(s) \in Whitespace
      THEN (IF word = <<>> THEN <<>> ELSE <<word>>) \o SplitFrom(Tail(s), <<>>)
      ELSE SplitFrom(Tail(s), Append(word, Head(s)))

Split_OnSpace(s) == SplitOnSpace(s, <<>>)
Split(s) == SplitFrom(s, <<>>)

\* models.py line 91
TokensUsed(prompt, text) == Len(Split(prompt)) + Len(Split(text))

\* What model_service.generate_text returns: None or a string.
ServiceReturns == {[kind |-> "none", text |-> <<>>]}
                    \cup {[kind |-> "text", text |-> s] : s \in Texts}
\* models.py line 84: `not generated_text` holds for None and for "".
Falsy(r) == r.kind = "none" \/ r.text = <<>>

\* A request with any prompt is at the endpoint; the service is as constructed.
TokenInit ==
    /\ root_exists = TRUE
    /\ root_created = FALSE
    /\ tree = ModelTree
    /\ available_models = ApplyWrites(<<>>, ScanWrites(ModelTree))
    /\ loaded_models = <<>>
    /\ handles_made = 0
    /\ unloaded = {}
    /\ NoThreadRuns
    /\ request \in {[active |-> TRUE, route |-> "text", prompt |-> p] : p \in Texts}
    /\ served = NotServed
    /\ response = NoResponse
    /\ usage = <<>>
    /\ answers = <<>>
    /\ GatewayStarts

\* models.py lines 94-102, 172-180: a UsageLog row.
UsageLog(endpoint_, tokens_used, status_code) ==
    [endpoint |-> endpoint_, tokens_used |-> tokens_used, status_code |-> status_code]

\* The response leaves the endpoint.
Answer(status, text, tokens_used) ==
    /\ response' = [status |-> status, text |-> text, tokens_used |-> tokens_used]
    /\ answers' = Append(answers, [route |-> request.route, status |-> status])

\* models.py lines 52-62, 123-133: no active model of that name and of the
\* endpoint's type in the database.
EpModelNotFound ==
    /\ request.active /\ served = NotServed /\ response = NoResponse
    /\ Answer("404", <<>>, 0)
    /\ UNCHANGED <<shared, locals, request, served, usage, gateway>>

\* What model_service.generate_image returns: None or the bytes of a PNG, which
\* are never empty.
ImageReturns == {[kind |-> "none", text |-> <<>>], [kind |-> "image", text |-> <<"a">>]}

\* models.py lines 78-82, 149-152: the service call returns.
EpServiceCall ==
    /\ request.active /\ served = NotServed /\ response = NoResponse
    /\ served' \in (IF request.route = "text" THEN ServiceReturns ELSE ImageReturns)
    /\ UNCHANGED <<shared, locals, request, response, usage, answers, gateway>>

\* The text endpoint with a usage row for every request it has sent to the
\* service: a failed generation is logged with status_code 500.
EpRespond_LogsFailures ==
    /\ request.route = "text" /\ served # NotServed /\ response = NoResponse
    /\ IF Falsy(served)
         THEN /\ usage' = Append(usage, UsageLog("text", 0, 500))
              /\ Answer("500", <<>>, 0)
         ELSE \E commit_ok \in BOOLEAN :
                IF commit_ok
                  THEN LET tokens_used == TokensUsed(request.prompt, served.text)
                       IN /\ usage' = Append(usage, UsageLog("text", tokens_used, 200))
                          /\ Answer("200", served.text, tokens_used)
                  ELSE /\ Answer("500", <<>>, 0)
                       /\ UNCHANGED usage
    /\ UNCHANGED <<shared, locals, request, served, gateway>>

\* models.py lines 84-110: HTTP 500 for a falsy result; otherwise the tokens
\* are counted, the usage row is added and committed (a commit that raises
\* leaves no row and the request ends in an error), and the response is built.
EpRespond ==
    /\ request.route = "text" /\ served # NotServed /\ response = NoResponse
    /\ IF Falsy(served)
         THEN /\ Answer("500", <<>>, 0)
              /\ UNCHANGED usage
         ELSE \E commit_ok \in BOOLEAN :
                IF commit_ok
                  THEN LET tokens_used == TokensUsed(request.prompt, served.text)
                       IN /\ usage' = Append(usage, UsageLog("text", tokens_used, 200))
                          /\ Answer("200", served.text, tokens_used)
                  ELSE /\ Answer("500", <<>>, 0)
                       /\ UNCHANGED usage
    /\ UNCHANGED <<shared, locals, request, served, gateway>>

\* models.py lines 1-5 import typing, fastapi, sqlalchemy, base64 and os: the
\* name `time` that line 162 reads is not bound in the module.
TimeImported == FALSE

\* models.py line 169
ImageTokens == 1000

\* models.py lines 154-191: HTTP 500 for a falsy result; otherwise line 162
\* evaluates time.time(), which raises NameError before the usage row is
\* built: the request ends in an error.  Were the name bound, the image would
\* be written, the row added and committed, and the response built.
EpImageRespond ==
    /\ request.route = "image" /\ served # NotServed /\ response = NoResponse
    /\ IF Falsy(served) \/ ~TimeImported
         THEN /\ Answer("500", <<>>, 0)
              /\ UNCHANGED usage
         ELSE \E commit_ok \in BOOLEAN :
                IF commit_ok
                  THEN /\ usage' = Append(usage, UsageLog("image", ImageTokens, 200))
                       /\ Answer("200", <<>>, ImageTokens)
                  ELSE /\ Answer("500", <<>>, 0)
                       /\ UNCHANGED usage
    /\ UNCHANGED <<shared, locals, request, served, gateway>>

TokenNext == EpModelNotFound \/ EpServiceCall \/ EpRespond

TokenSpec == TokenInit /\ [][TokenNext]_vars

\* ------------------------------------------------------- the usage log
Routes == {"text", "image"}
\* The prompts of the requests below: the texts of at most one character.
ShortTexts == {s \in Texts : Len(s) <= 1}

\* A request arrives at a generation endpoint when the one before it has been
\* answered; MaxRequests requests arrive in all.
EpRequest ==
    /\ ~request.active \/ response # NoResponse
    /\ Len(answers) < MaxRequests
    /\ request' \in {[active |-> TRUE, route |-> r, prompt |-> p] :
                        r \in Routes, p \in ShortTexts}
    /\ served' = NotServed
    /\ response' = NoResponse
    /\ UNCHANGED <<shared, locals, usage, answers, gateway>>

\* Requests to the two generation endpoints, one after another.
UsageNext ==
    \/ EpRequest
    \/ EpModelNotFound
    \/ EpServiceCall
    \/ EpRespond
    \/ EpImageRespond

UsageSpec == Init /\ [][UsageNext]_vars

\* ------------------------------------------------- RateLimitMiddleware
\* The clock advances.
Tick ==
    /\ now < MaxTime
    /\ now' = now + 1
    /\ UNCHANGED <<shared, locals, request, served, response, usage, answers,
                   request_counts, admitted, inflight, reported, keystore>>

\* security.py lines 80-83: the timestamps of the last Window ticks.
Recent(timestamps) == SelectSeq(timestamps, LAMBDA timestamp : now - timestamp < Window)

\* The middleware with `>` at line 86: the request that finds max_requests
\* timestamps in the window still passes.
RlDispatch_OffByOne(key) ==
    /\ inflight[key] < MaxInFlight
    /\ LET max_requests == MaxRequestsOf(key)
           cleaned == Recent(request_counts[key])
       IN IF Len(cleaned) > max_requests
            THEN /\ request_counts' = [request_counts EXCEPT ![key] = cleaned]
                 /\ reported' = [status |-> "429", limit |-> max_requests, remaining |-> 0]
                 /\ UNCHANGED <<admitted, inflight>>
            ELSE /\ request_counts' = [request_counts EXCEPT ![key] = Append(cleaned, now)]
                 /\ admitted' = [admitted EXCEPT ![key] = Append(@, now)]
                 /\ inflight' = [inflight EXCEPT ![key] = @ + 1]
                 /\ UNCHANGED reported
    /\ UNCHANGED <<shared, locals, request, served, response, usage, answers, now,
                   keystore>>

\* security.py lines 57-96 for a request to an /api path with this key: no
\* await lies between line 57 and line 93, so on the event loop they are one
\* step.  The list is cleaned; a full window raises 429 and appends nothing;
\* otherwise the request's time is appended and the request is passed on
\* (call_next), to be answered later.
RlDispatch(key) ==
    /\ inflight[key] < MaxInFlight
    /\ LET max_requests == MaxRequestsOf(key)
           cleaned == Recent(request_counts[key])
       IN IF Len(cleaned) >= max_requests
            THEN /\ request_counts' = [request_counts EXCEPT ![key] = cleaned]
                 /\ reported' = [status |-> "429", limit |-> max_requests, remaining |-> 0]
                 /\ UNCHANGED <<admitted, inflight>>
            ELSE /\ request_counts' = [request_counts EXCEPT ![key] = Append(cleaned, now)]
                 /\ admitted' = [admitted EXCEPT ![key] = Append(@, now)]
                 /\ inflight' = [inflight EXCEPT ![key] = @ + 1]
                 /\ UNCHANGED reported
    /\ UNCHANGED <<shared, locals, request, served, response, usage, answers, now,
                   keystore>>

\* security.py lines 98-104: call_next has returned; the headers are computed
\* from the list as it is now.
RlRespond(key) ==
    /\ inflight[key] > 0
    /\ inflight' = [inflight EXCEPT ![key] = @ - 1]
    /\ LET max_requests == MaxRequestsOf(key)
       IN reported' = [status |-> "passed", limit |-> max_requests,
                       remaining |-> max_requests - Len(request_counts[key])]
    /\ UNCHANGED <<shared, locals, request, served, response, usage, answers, now,
                   request_counts, admitted, keystore>>

\* security.py lines 52-54: a request to a path outside /api is passed on and
\* answered without rate-limit headers; nothing is counted.
RlSkip ==
    /\ reported # NoReport
    /\ reported' = NoReport
    /\ UNCHANGED <<shared, locals, request, served, response, usage, answers, now,
                   request_counts, admitted, inflight, keystore>>

RateNext ==
    \/ Tick
    \/ \E key \in RequestKeys : RlDispatch(key)
    \/ \E key \in RequestKeys : RlRespond(key)
    \/ RlSkip

RateSpec == Init /\ [][RateNext]_vars

\* ------------------------------------------------- API key management
\* api_keys.py line 58
max_api_keys == 5
\* api_keys.py lines 76, 124: timedelta(days=365)
DefaultDays == 365

\* The rest of the model while the key endpoints run.
KeyFrame ==
    UNCHANGED <<shared, locals, request, served, response, usage, answers,
                now, request_counts, admitted, inflight, reported, users>>

\* api_keys.py lines 59-62: the user's active keys.
ActiveKeysOf(user) ==
    {i \in DOMAIN api_keys : api_keys[i].user_id = user /\ api_keys[i].is_active}

\* api_keys.py lines 38-90 for current_user `user` (active: line 41 and
\* dependencies.py line 65) and the request's expires_at: HTTP 400 at the cap;
\* otherwise a row is added, expiring at the given time or in a year.
CreateApiKey(user, expires_at) ==
    /\ users[user]
    /\ IF Cardinality(ActiveKeysOf(user)) >= max_api_keys
         THEN /\ answer' = Answered("create", user, 0, "400")
              /\ UNCHANGED api_keys
         ELSE /\ api_keys' = Append(api_keys,
                     ApiKey(user, IF expires_at.set THEN expires_at
                                  ELSE At(now + DefaultDays)))
              /\ answer' = Answered("create", user, Len(api_keys) + 1, "ok")
    /\ KeyFrame

\* delete_api_key without the user_id filter of line 104.
DeleteApiKey_AnyOwner(user, api_key_id) ==
    /\ users[user]
    /\ IF api_key_id \in DOMAIN api_keys
         THEN /\ api_keys' = [api_keys EXCEPT ![api_key_id].is_active = FALSE]
              /\ answer' = Answered("delete", user, api_key_id, "ok")
         ELSE /\ answer' = Answered("delete", user, api_key_id, "404")
              /\ UNCHANGED api_keys
    /\ KeyFrame

\* api_keys.py lines 93-119: the row of that id and of the current user is
\* deactivated; HTTP 404 if there is none.
DeleteApiKey(user, api_key_id) ==
    /\ users[user]
    /\ IF api_key_id \in DOMAIN api_keys /\ api_keys[api_key_id].user_id = user
         THEN /\ api_keys' = [api_keys EXCEPT ![api_key_id].is_active = FALSE]
              /\ answer' = Answered("delete", user, api_key_id, "ok")
         ELSE /\ answer' = Answered("delete", user, api_key_id, "404")
              /\ UNCHANGED api_keys
    /\ KeyFrame

\* api_keys.py lines 122-150: the row of that id and of the current user gets
\* a new expiry and is activated; HTTP 404 if there is none.
RenewApiKey(user, api_key_id, expiration_days) ==
    /\ users[user]
    /\ IF api_key_id \in DOMAIN api_keys /\ api_keys[api_key_id].user_id = user
         THEN /\ api_keys' = [api_keys EXCEPT
                                ![api_key_id].expires_at = At(now + expiration_days),
                                ![api_key_id].is_active = TRUE]
              /\ answer' = Answered("renew", user, api_key_id, "ok")
         ELSE /\ answer' = Answered("renew", user, api_key_id, "404")
              /\ UNCHANGED api_keys
    /\ KeyFrame

\* The ids a request may name: those of the table and one beyond it.
KeyIds == 1..(Len(api_keys) + 1)

\* Users create keys with the default expiry, delete and renew them by id, the
\* table growing to one row more than the cap.
CapCreate(user) == Len(api_keys) <= max_api_keys /\ CreateApiKey(user, Unset)

CapDelete(user) == \E id \in KeyIds : DeleteApiKey(user, id)

CapRenew(user) == \E id \in KeyIds : RenewApiKey(user, id, DefaultDays)

CapNext == \E user \in Users : CapCreate(user) \/ CapDelete(user) \/ CapRenew(user)

CapSpec == Init /\ [][CapNext]_vars

\* ------------------------------------------------------ verify_api_key
\* The key strings a request may carry: those of the table's rows (by id) and
\* one that is in no row.
UnknownKey == 0
KeyStrings == DOMAIN api_keys \cup {UnknownKey}

\* verify_api_key without the check of lines 113-117: the owner's is_active is
\* not looked at.
VerifyOutcome_IgnoresOwner(key) ==
    IF key \notin DOMAIN api_keys \/ ~api_keys[key].is_active THEN "401"
    ELSE IF api_keys[key].expires_at.set /\ api_keys[key].expires_at.at < now THEN "401"
    ELSE "accepted"

\* dependencies.py lines 92-123 for a request that carries a key string (one
\* without is rejected at line 84): no active row with that key, 401; an
\* expiry that is set and earlier than utcnow(), 401; an inactive owner, 403;
\* otherwise the key is accepted.
VerifyOutcome(key) ==
    IF key \notin DOMAIN api_keys \/ ~api_keys[key].is_active THEN "401"
    ELSE IF api_keys[key].expires_at.set /\ api_keys[key].expires_at.at < now THEN "401"
    ELSE IF ~users[api_keys[key].user_id] THEN "403"
    ELSE "accepted"

\* A request comes with a key string and passes through verify_api_key.
VerifyApiKey(key) ==
    /\ answer' = Answered("verify", 0, key, VerifyOutcome(key))
    /\ UNCHANGED api_keys
    /\ KeyFrame

\* The clock advances by a day.
KeyTick ==
    /\ now < MaxDays
    /\ now' = now + 1
    /\ UNCHANGED <<shared, locals, request, served, response, usage, answers,
                   request_counts, admitted, inflight, reported, keystore>>

\* The database as the service finds it: each user active or deactivated, and
\* no key yet or one key without expiry (NULL), of either user.
KeyInit ==
    /\ root_exists = TRUE
    /\ root_created = FALSE
    /\ tree = ModelTree
    /\ available_models = ApplyWrites(<<>>, ScanWrites(ModelTree))
    /\ loaded_models = <<>>
    /\ handles_made = 0
    /\ unloaded = {}
    /\ NoThreadRuns
    /\ request = NoRequest
    /\ served = NotServed
    /\ response = NoResponse
    /\ usage = <<>>
    /\ answers = <<>>
    /\ now = 0
    /\ request_counts = [k \in RequestKeys |-> <<>>]
    /\ admitted = [k \in RequestKeys |-> <<>>]
    /\ inflight = [k \in RequestKeys |-> 0]
    /\ reported = NoReport
    /\ users \in [Users -> BOOLEAN]
    /\ api_keys \in {<<>>} \cup {<<ApiKey(user, Unset)>> : user \in Users}
    /\ answer = NoAnswer

\* A create request that asks for a key expiring tomorrow.
KeyCreate(user) == Len(api_keys) < MaxKeys /\ CreateApiKey(user, At(now + 1))

KeyDelete(user) == \E id \in KeyIds : DeleteApiKey(user, id)

\* expiration_days is a query parameter: here zero or one day.
KeyRenew(user) ==
    \E id \in KeyIds, expiration_days \in {0, 1} : RenewApiKey(user, id, expiration_days)

KeyVerify == \E key \in KeyStrings : VerifyApiKey(key)

KeyNext ==
    \/ \E user \in Users : KeyCreate(user) \/ KeyDelete(user) \/ KeyRenew(user)
    \/ KeyVerify
    \/ KeyTick

KeySpec == KeyInit /\ [][KeyNext]_vars

\* ------------------------------------------------------------- vocabulary
Registered(n) == n \in DOMAIN available_models
Cached(n) == n \in DOMAIN loaded_models
RegisteredNames == DOMAIN available_models

\* No call is in flight.
Quiet == \A t \in Threads : Idle(t)

\* Thread t is inside a method (it has entered and the method has not ended).
Running(t) == pc[t] \notin {"idle", "ret"}

\* Thread t is inside load_model holding the handle the backend gave it.
Built(t) == pc[t] \in {"lm_store", "lm_flag"}

\* Thread t is inside a dispatch method holding the handle it fetched.
Fetched(t) == pc[t] = "g_exec"

\* The step is one of thread t's.
Acts(t) == <<pc[t], idx[t]>> # <<pc'[t], idx'[t]>>

\* ------------------------------------------------------------------- C1
\* C1: callers that request the same cold name at the same time cause one
\* backend load in total: no two threads are inside a loading method for the
\* same name with a backend load invoked by each.
C1_ExactlyOneLoad ==
    \A t, u \in Threads :
        (t # u /\ Running(t) /\ Running(u) /\ arg[t] = arg[u]
              /\ op[t] \in LoadingOps /\ op[u] \in LoadingOps)
            => nloads[t] + nloads[u] <= 1

\* ------------------------------------------------------------------- C2
\* C2: callers that request the same cold name at the same time see one
\* outcome of the load: never is one inside load_model with a failed load
\* while another is inside it with a handle, and never do two of them hold
\* (built or fetched) different handles for the name.
C2_SharedOutcome ==
    \A t, u \in Threads :
        (t # u /\ arg[t] = arg[u]) =>
            /\ ~(pc[t] = "lm_failed" /\ Built(u))
            /\ ((Built(t) \/ Fetched(t)) /\ (Built(u) \/ Fetched(u))
                  => hnd[t] = hnd[u])

\* ------------------------------------------------------------------- C3
\* C3: whenever no call is in flight, every registered name has its loaded
\* flag set iff it is a key of loaded_models.
C3_LoadedIffCached ==
    Quiet => \A n \in RegisteredNames : available_models[n].loaded <=> Cached(n)

\* ------------------------------------------------------------------- C4
\* The handles alive for name n: the cached one, and those built by load_model
\* calls that are in flight.
LiveHandles(n) ==
    (IF Cached(n) THEN {loaded_models[n]} ELSE {})
    \cup {hnd[t] : t \in {u \in Threads : Built(u) /\ arg[u] = n}}

\* C4: at every instant each name has at most one live handle.
C4_AtMostOneHandle ==
    \A n \in CallNames : Cardinality(LiveHandles(n)) <= 1

\* ------------------------------------------------------------------- C5
\* C5: no dispatch call executes a handle that a completed unload_model
\* removed.
C5_NoUseAfterUnload ==
    [][\A t \in Threads :
          (pc[t] = "g_exec" /\ pc'[t] = "ret") => <<arg[t], hnd[t]>> \notin unloaded]_vars

\* ------------------------------------------------------------------- C6
\* Thread t runs generate_text on an image-diffusion model or generate_image
\* on a text model.
Mismatched(t) ==
    /\ Running(t)
    /\ Registered(arg[t])
    /\ \/ op[t] = "generate_text" /\ available_models[arg[t]].type = "stable-diffusion"
       \/ op[t] = "generate_image" /\ available_models[arg[t]].type = "transformers"

\* C6: a text request for an image-diffusion model, or an image request for a
\* text model, returns the error and attempts no load: none of its steps
\* invokes the backend load or changes the registry or the cache.
C6_MismatchNeverLoads ==
    [][\A t \in Threads :
          (Acts(t) /\ Mismatched(t)) =>
              /\ nloads'[t] <= nloads[t]
              /\ loaded_models' = loaded_models
              /\ available_models' = available_models
              /\ (pc'[t] = "ret" => result'[t] = "None")]_vars

\* ------------------------------------------------------------------- C7
\* C7: every step of a load_model or dispatch call on a name that is not in
\* the registry leaves available_models and loaded_models as they are and
\* invokes neither the backend load nor an execution, and the call ends with
\* the error value (False from load_model, None from a dispatch method).
C7_UnknownNameNotFound ==
    [][\A t \in Threads :
          (Acts(t) /\ op'[t] \in LoadingOps /\ ~Registered(arg'[t])) =>
              /\ available_models' = available_models
              /\ loaded_models' = loaded_models
              /\ handles_made' = handles_made
              /\ nloads'[t] = 0
              /\ nexecs'[t] = 0
              /\ pc'[t] \in {"lm_head", "ret"}
              /\ (pc[t] = "lm_head" => pc'[t] = "ret")
              /\ (pc'[t] = "ret" =>
                    result'[t] = IF op'[t] = "load_model" THEN "False" ELSE "None")]_vars

\* A dispatch call on an unknown name has ended with the error while another
\* model sits in the cache.
C7_Witness ==
    \E t \in Threads :
        /\ pc[t] = "ret"
        /\ op[t] \in DispatchOps
        /\ ~Registered(arg[t])
        /\ result[t] = "None"
        /\ nloads[t] = 0
        /\ loaded_models # <<>>

\* ------------------------------------------------------------------- C8
\* C8: an unload_model call that finds no cache entry for its name (at its
\* check of line 127, or at the del of line 133) returns False and leaves
\* loaded_models and every descriptor as they are.
C8_UnloadWithoutHandle ==
    [][\A t \in Threads :
          (Acts(t) /\ op'[t] = "unload_model" /\ pc[t] \in {"idle", "ul_del"}
                   /\ ~Cached(arg'[t])) =>
              /\ pc'[t] = "ret"
              /\ result'[t] = "False"
              /\ loaded_models' = loaded_models
              /\ available_models' = available_models]_vars

\* An unload_model of a name already unloaded has ended with False, having
\* removed nothing, while another model sits in the cache.
C8_Witness ==
    \E t \in Threads :
        /\ pc[t] = "ret"
        /\ op[t] = "unload_model"
        /\ result[t] = "False"
        /\ removed[t] = NoHandle
        /\ \E h \in 1..handles_made : <<arg[t], h>> \in unloaded
        /\ loaded_models # <<>>

\* ------------------------------------------------------------------- C9
\* The handles of name n that completed unloads removed.
UnloadedOf(n) == {h \in 1..handles_made : <<n, h>> \in unloaded}

\* C9 (calls made one after another): an unload_model that returns True
\* leaves its name with no cache entry and loaded = false; the next dispatch
\* for a name so unloaded goes to load_model, which invokes the backend load
\* and never yields a handle that was unloaded.
C9_FreshLoadAfterUnload ==
    [][\A t \in Threads :
          /\ (pc[t] = "ul_flag" /\ pc'[t] = "ret" /\ result'[t] = "True") =>
                 (arg[t] \notin DOMAIN loaded_models'
                    /\ ~available_models'[arg[t]].loaded)
          /\ (Idle(t) /\ op'[t] \in DispatchOps /\ UnloadedOf(arg'[t]) # {}
                      /\ ~Cached(arg'[t]) /\ ~available_models[arg'[t]].loaded) =>
                 pc'[t] = "lm_head"
          /\ (pc[t] = "lm_head" /\ Acts(t) /\ UnloadedOf(arg[t]) # {}
                      /\ ~available_models[arg[t]].loaded) =>
                 (nloads'[t] = nloads[t] + 1 /\ hnd'[t] \notin UnloadedOf(arg[t]))]_vars

\* A dispatch for a name that was loaded and then unloaded has loaded it
\* again, into a new handle, and has run on it.
C9_Witness ==
    \E t \in Threads :
        /\ pc[t] = "ret"
        /\ op[t] \in DispatchOps
        /\ UnloadedOf(arg[t]) # {}
        /\ nloads[t] = 1
        /\ hnd[t] # NoHandle
        /\ hnd[t] \notin UnloadedOf(arg[t])
        /\ result[t] = "value"

\* ------------------------------------------------------------------ C10
\* C10 (calls made one after another): a load that has failed leaves its name
\* with loaded = false and no cache entry and the descriptor's type as it was
\* read, and the call returns the failure.
C10_FailedLoadLeavesCold ==
    \A t \in Threads :
        /\ pc[t] = "lm_failed" =>
              /\ ~available_models[arg[t]].loaded
              /\ ~Cached(arg[t])
              /\ available_models[arg[t]].type = info[t]
        /\ (pc[t] = "ret" /\ nloads[t] = 1 /\ hnd[t] = NoHandle) =>
              result[t] \in {"False", "None"}

\* ------------------------------------------------------------------ C11
\* C11 (calls made one after another): while a name is loaded (its flag is
\* set and its handle is cached), no step of a load_model or dispatch call for
\* it invokes the backend load or changes the cache: load_model returns True,
\* and the handle a dispatch call fetches is the cached one.
LoadedNow(n) == Registered(n) /\ available_models[n].loaded /\ Cached(n)

C11_LoadedIsIdempotent ==
    [][\A t \in Threads :
          (Acts(t) /\ op'[t] \in LoadingOps /\ LoadedNow(arg'[t])) =>
              /\ nloads'[t] = nloads[t]
              /\ handles_made' = handles_made
              /\ loaded_models' = loaded_models
              /\ op'[t] = "load_model" => result'[t] = "True"
              /\ pc'[t] = "g_exec" => hnd'[t] = loaded_models[arg'[t]]]_vars

\* A dispatch call for a loaded name has run on the cached handle, the only
\* one ever made, without loading.
C11_Witness ==
    \E t \in Threads :
        /\ pc[t] = "ret"
        /\ op[t] \in DispatchOps
        /\ LoadedNow(arg[t])
        /\ nloads[t] = 0
        /\ nexecs[t] = 1
        /\ hnd[t] = loaded_models[arg[t]]
        /\ handles_made = 1

\* ------------------------------------------------------------------ C12
\* The failures a dispatch call logs: unknown name (line 78), modality
\* mismatch (line 156), failed load (line 122), failed execution (line 182).
DispatchCauses == {"not_found", "type_mismatch", "load_failed", "inference_failed"}

\* C12: the result of a failed generate_text / generate_image call identifies
\* its cause: two calls that failed for different causes return different
\* results.
C12_CauseIdentified ==
    \A t, u \in Threads :
        (/\ pc[t] = "ret" /\ pc[u] = "ret"
         /\ op[t] \in {"generate_text", "generate_image"}
         /\ op[u] \in {"generate_text", "generate_image"}
         /\ cause[t] \in DispatchCauses
         /\ cause[u] \in DispatchCauses
         /\ cause[t] # cause[u])
        => result[t] # result[u]

\* ------------------------------------------------------------------ C13
\* C13: under any interleaving of calls, no call of load_model, unload_model
\* or a dispatch method ends with an exception leaving the method: a call that
\* met a failure returns the method's error value (False, or None from a
\* dispatch method).
C13_NoUncaughtFault ==
    \A t \in Threads :
        /\ result[t] # "raised"
        /\ (pc[t] = "ret" /\ cause[t] # "none") =>
              result[t] = (IF op[t] \in DispatchOps THEN "None" ELSE "False")

\* A dispatch call found its name cached, and the handle gone when it came to
\* fetch it (another thread's unload_model ran in between): the KeyError was
\* caught and the call has returned None.
C13_Witness ==
    \E t \in Threads :
        /\ pc[t] = "ret"
        /\ op[t] \in DispatchOps
        /\ cause[t] = "inference_failed"
        /\ nloads[t] = 0
        /\ nexecs[t] = 0
        /\ result[t] = "None"

\* ------------------------------------------------------- C14, C15, C16
\* What a tree holds, stated without the walk: each config.json is a
\* text-generation artifact named by its directory, each *.onnx file a
\* tensor-graph artifact named by its stem, each model_index.json an
\* image-diffusion artifact named by its directory.  dir and slot place the
\* artifact in the scan: directories in walk order, and within one directory
\* config.json, then the files, then model_index.json.
ArtifactsOf(tr) ==
    {[dir |-> i, slot |-> 0, name |-> tr[i].base, type |-> "transformers",
      path |-> DirPath(tr[i].path)] : i \in {j \in DOMAIN tr : tr[j].config}}
    \cup {[dir |-> i, slot |-> Len(tr[i].files) + 1, name |-> tr[i].base,
           type |-> "stable-diffusion", path |-> DirPath(tr[i].path)] :
             i \in {j \in DOMAIN tr : tr[j].index}}
    \cup UNION {{[dir |-> i, slot |-> k, name |-> tr[i].files[k][1], type |-> "onnx",
                  path |-> FilePath(tr[i].path, tr[i].files[k])] :
                    k \in {m \in DOMAIN tr[i].files : tr[i].files[m][2] = "onnx"}} :
                 i \in DOMAIN tr}

ResolvedNames(tr) == {a.name : a \in ArtifactsOf(tr)}
Named(tr, n) == {a \in ArtifactsOf(tr) : a.name = n}
ScannedAfter(a, b) == a.dir > b.dir \/ (a.dir = b.dir /\ a.slot > b.slot)
LastScanned(tr, n) ==
    CHOOSE a \in Named(tr, n) : \A b \in Named(tr, n) : b = a \/ ScannedAfter(a, b)

ScanDone(t) == pc[t] = "ret" /\ op[t] = "scan_models"
ListReturned(t) == pc[t] = "ret" /\ op[t] = "get_available_models"

\* C14: after a scan of any tree the registry holds exactly the resolved
\* names, each with the type and path of the artifact scanned last under that
\* name, and the list get_available_models returns has exactly one entry per
\* registered name, with that type.
C14_OneEntryPerName ==
    \A t \in Threads :
        /\ ScanDone(t) =>
              /\ DOMAIN available_models = ResolvedNames(tree)
              /\ \A n \in ResolvedNames(tree) :
                    /\ available_models[n].type = LastScanned(tree, n).type
                    /\ available_models[n].path = LastScanned(tree, n).path
        /\ ListReturned(t) =>
              /\ Len(listed[t]) = Cardinality(DOMAIN available_models)
              /\ \A n \in DOMAIN available_models :
                    \E i \in DOMAIN listed[t] :
                        /\ listed[t][i].name = n
                        /\ listed[t][i].type = available_models[n].type

\* One directory holds config.json and model_index.json, a second artifact
\* elsewhere resolves to another name, and the list returned after the scan
\* has the directory's name once, as an image-diffusion model.
C14_Witness ==
    \E t \in Threads :
        /\ ListReturned(t)
        /\ Len(listed[t]) = 2
        /\ Cardinality(ArtifactsOf(tree)) > 2
        /\ \E i \in DOMAIN tree, j \in DOMAIN listed[t] :
              /\ tree[i].config /\ tree[i].index
              /\ listed[t][j].name = tree[i].base
              /\ listed[t][j].type = "stable-diffusion"

\* C15: after a scan, every descriptor is that of an artifact of the tree
\* (config.json: text generation, named by the directory; *.onnx: tensor
\* graph, named by the stem; model_index.json: image diffusion, named by the
\* directory) with loaded = false; every artifact's name is registered, and
\* with the artifact's own type and path when no other artifact has its name.
C15_ScanClassification ==
    \A t \in Threads :
        ScanDone(t) =>
          /\ \A n \in DOMAIN available_models :
                \E a \in ArtifactsOf(tree) :
                    /\ a.name = n
                    /\ available_models[n] =
                          [path |-> a.path, type |-> a.type, loaded |-> FALSE]
          /\ \A a \in ArtifactsOf(tree) :
                /\ a.name \in DOMAIN available_models
                /\ Named(tree, a.name) = {a} =>
                      available_models[a.name] =
                          [path |-> a.path, type |-> a.type, loaded |-> FALSE]

\* A scan has registered a text-generation, a tensor-graph and an
\* image-diffusion model from a tree that also holds a file of no model kind.
C15_Witness ==
    \E t \in Threads :
        /\ ScanDone(t)
        /\ {available_models[n].type : n \in DOMAIN available_models}
              = {"transformers", "onnx", "stable-diffusion"}
        /\ \E i \in DOMAIN tree : \E k \in DOMAIN tree[i].files :
              tree[i].files[k][2] # "onnx"

\* C16: a scan that finds the root missing creates it, writes no descriptor
\* and returns without an error; a listing taken while the created root is
\* empty is empty; and a scan that ends after artifacts were put under the
\* created root has registered every one of them.
C16_MissingRootCreated ==
    [][\A t \in Threads :
          /\ (Idle(t) /\ op'[t] = "scan_models" /\ ~root_exists) =>
                /\ root_exists'
                /\ available_models' = available_models
                /\ pc'[t] = "ret"
                /\ result'[t] = "None"
                /\ cause'[t] = "none"
          /\ (Idle(t) /\ op'[t] = "get_available_models" /\ root_created
                      /\ tree = <<>>) =>
                listed'[t] = <<>>
          /\ (root_created /\ ~ScanDone(t) /\ ScanDone(t)') =>
                /\ DOMAIN available_models' = ResolvedNames(tree)
                /\ \A n \in ResolvedNames(tree) : ~available_models'[n].loaded]_vars

\* The root was missing and was created by a scan, artifacts were added, and
\* a later scan has registered them.
C16_Witness ==
    \E t \in Threads :
        /\ root_created
        /\ ScanDone(t)
        /\ tree # <<>>
        /\ DOMAIN available_models = ResolvedNames(tree)
        /\ available_models # <<>>

\* ------------------------------------------------------------------ C17
\* The whitespace-separated tokens of a text: the positions where a
\* non-whitespace character starts the text or follows whitespace.
WordStarts(s) ==
    {i \in DOMAIN s : s[i] \notin Whitespace /\ (i = 1 \/ s[i - 1] \in Whitespace)}

\* C17: every successful text generation reports as tokens_used the number of
\* whitespace-separated tokens of the prompt plus that of the returned text.
C17_TokensUsed ==
    response.status = "200" =>
        /\ response.text = served.text
        /\ response.tokens_used = Cardinality(WordStarts(request.prompt))
                                    + Cardinality(WordStarts(served.text))

\* A successful generation whose prompt starts with whitespace and holds one
\* token, and whose text holds two.
C17_Witness ==
    /\ response.status = "200"
    /\ Len(request.prompt) > 1
    /\ request.prompt[1] \in Whitespace
    /\ Cardinality(WordStarts(request.prompt)) = 1
    /\ Len(served.text) = MaxTextLen
    /\ Cardinality(WordStarts(served.text)) = 2
    /\ response.tokens_used > 2

\* ------------------------------------------------------------------ C18
\* C18: a generate_image call whose caller's deadline is shorter than the cold
\* load it performs returns Timeout, and leaves its name either loaded (flag
\* set, handle cached) or abandoned (flag clear, no handle).
C18_TimeoutOnTightDeadline ==
    \A t \in Threads :
        (pc[t] = "ret" /\ op[t] = "generate_image" /\ deadline[t] = "tight"
           /\ nloads[t] = 1) =>
            /\ result[t] = "Timeout"
            /\ \/ LoadedNow(arg[t])
               \/ ~available_models[arg[t]].loaded /\ ~Cached(arg[t])

\* ------------------------------------------------------------------ C19
\* Thread t is in the middle of a load of n (the backend has run, the result
\* is not yet published or reported), of an unload of n, or of a use of n's
\* handle (fetched, not yet executed).
Loading(t, n) == arg[t] = n /\ pc[t] \in {"lm_store", "lm_flag", "lm_failed"}
Unloading(t, n) == arg[t] = n /\ pc[t] \in {"ul_del", "ul_flag"}
Using(t, n) == arg[t] = n /\ pc[t] = "g_exec"
Busy(t, n) == Loading(t, n) \/ Unloading(t, n) \/ Using(t, n)

\* C19: for one name, no two threads are at once in the middle of a load, an
\* unload or a use of the handle (two uses may overlap); and a thread in the
\* middle of a call can always take its next step, whatever the other threads
\* are doing.
C19_PerNameExclusion ==
    /\ \A t, u \in Threads : \A n \in CallNames :
          (t # u /\ Busy(t, n) /\ Busy(u, n)) => (Using(t, n) /\ Using(u, n))
    /\ \A t \in Threads : Running(t) => ENABLED Step(t)

\* ------------------------------------------------------------------ C20
\* C20: a cached handle stays cached, the same handle, across every step that
\* is not a step of an unload_model or load_model call for its name: steps of
\* generate calls for any name, of loads and unloads of other names, of scans
\* and of listings.
C20_UnloadExplicitOnly ==
    [][\A n \in CallNames :
          (/\ Cached(n)
           /\ ~\E t \in Threads :
                 Acts(t) /\ arg[t] = n /\ op[t] \in {"unload_model", "load_model"})
          => (Cached(n)' /\ loaded_models'[n] = loaded_models[n])]_vars

\* ------------------------------------------------------------------ C21
\* C21: a dispatch call invokes the backend load at most once and the backend
\* execution at most once, and once a load or an execution has failed in it
\* the call has ended: it is at its return, with no load and no execution
\* after the failure.
C21_NoInternalRetry ==
    \A t \in Threads :
        op[t] \in DispatchOps =>
            /\ nloads[t] <= 1
            /\ nexecs[t] <= 1
            /\ cause[t] \in {"load_failed", "inference_failed"} => pc[t] = "ret"
            /\ cause[t] = "load_failed" => nexecs[t] = 0

\* A dispatch call whose one backend load failed has returned None without
\* an execution.
C21_Witness ==
    \E t \in Threads :
        /\ op[t] \in DispatchOps /\ pc[t] = "ret" /\ result[t] = "None"
        /\ cause[t] = "load_failed" /\ nloads[t] = 1 /\ nexecs[t] = 0

\* ------------------------------------------------------------------ C22
\* C22: the descriptor of a registered name (its path, type and loaded flag)
\* changes only in a step of a load (load_model or a dispatch method) or of
\* an unload_model for that name; the artifacts stay as they are throughout,
\* so no step of scan_models changes a descriptor.
C22_FlagChangedByLoadUnloadOnly ==
    [][\A n \in RegisteredNames :
          (Registered(n)' /\ available_models'[n] # available_models[n])
          => \E t \in Threads :
                /\ Acts(t) /\ arg[t] = n
                /\ op[t] \in LoadingOps \cup {"unload_model"}]_vars

\* ------------------------------------------------------------------ C23
\* C23: the steps of a dispatch call from the handle fetch on (the fetch and
\* the execution, successful or failed) leave available_models as it is, every
\* name, path, type and loaded flag, and leave the key set of loaded_models as
\* it is.
C23_ExecutionLeavesRegistry ==
    [][\A t \in Threads :
          (pc[t] \in {"g_fetch", "g_exec"} /\ op[t] \in DispatchOps /\ Acts(t))
          => /\ available_models' = available_models
             /\ DOMAIN loaded_models' = DOMAIN loaded_models]_vars

\* A dispatch call on a model that was loaded when it was called has executed
\* and failed, and the model is still flagged loaded and cached.
C23_Witness ==
    \E t \in Threads :
        /\ op[t] \in DispatchOps /\ pc[t] = "ret"
        /\ nloads[t] = 0 /\ nexecs[t] = 1 /\ cause[t] = "inference_failed"
        /\ LoadedNow(arg[t])

\* ------------------------------------------------------------------ C24
\* C24: a list returned by get_available_models, whether the call ran between
\* scans or during one, is the listing of the whole registry as it was before
\* the scan (empty, before the first scan; what a scan of the tree yields,
\* before a later one) or as it is after the scan, never of a registry that
\* holds some of the scan's descriptors and not the others.
C24_AtomicRegistryUpdate ==
    \A t \in Threads :
        ListReturned(t) =>
            listed[t] \in {<<>>, Listing(ApplyWrites(<<>>, ScanWrites(tree)))}

\* ------------------------------------------------------------------ C25
\* C25: the execution step of run_onnx_model (the model is a tensor graph: the
\* type check has passed).  If the input map misses a name the session
\* requires, the call returns None and the graph is not run; otherwise the
\* graph is run once and is passed exactly the required names, whatever else
\* the map holds.
C25_OnnxInputValidation ==
    [][\A t \in Threads :
          (pc[t] = "g_exec" /\ op[t] = "run_onnx_model" /\ Acts(t)) =>
             IF RequiredInputs \subseteq inputs'[t]
               THEN nexecs'[t] = nexecs[t] + 1 /\ fed'[t] = RequiredInputs
               ELSE /\ nexecs'[t] = nexecs[t] /\ fed'[t] = {}
                    /\ result'[t] = "None" /\ pc'[t] = "ret"]_vars

\* A run_onnx_model call given the required names and one more has run the
\* graph once on the required names.
C25_Witness ==
    \E t \in Threads :
        /\ op[t] = "run_onnx_model" /\ pc[t] = "ret"
        /\ inputs[t] = InputNames /\ fed[t] = RequiredInputs /\ nexecs[t] = 1
        /\ available_models[arg[t]].type = "onnx"

\* ------------------------------------------------------------------ C26
\* C26: an unload_model call that returns False has deleted no handle (and so
\* has cleared no flag: the cache and the flag are as they were when it was
\* called), and a call that has deleted the handle and cleared the flag returns
\* True.
C26_UnloadAllOrNothing ==
    \A t \in Threads :
        (op[t] = "unload_model" /\ pc[t] = "ret") =>
            /\ result[t] = "False" => removed[t] = NoHandle
            /\ (removed[t] # NoHandle /\ ~available_models[arg[t]].loaded)
                  => result[t] = "True"

\* ------------------------------------------------------------------ C27
\* The responses sent so far that were successful, in order.
Successes == SelectSeq(answers, LAMBDA a : a.status = "200")

\* C27: the usage rows are, one for one and in order, the successful responses
\* of the two generation endpoints: as many rows as successes, each row of the
\* endpoint of its response and with status code 200; a request that ended in
\* an error (404, 500) has no row.
C27_UsageRowsAreSuccesses ==
    /\ Len(usage) = Len(Successes)
    /\ \A i \in DOMAIN usage :
          usage[i].endpoint = Successes[i].route /\ usage[i].status_code = 200

\* A failed generation and a successful one have been answered, and the log
\* holds one row.
C27_Witness ==
    /\ Len(answers) = 2
    /\ answers[1].status = "500"
    /\ answers[2] = [route |-> "text", status |-> "200"]
    /\ response.status = "200"
    /\ Len(usage) = 1

\* ------------------------------------------------------------------ C28
\* The requests with this key that the middleware let pass at a time in the
\* window of Window ticks that starts at `start`.
AdmittedIn(key, start) ==
    {i \in DOMAIN admitted[key] :
        start <= admitted[key][i] /\ admitted[key][i] < start + Window}

\* The list holds the times of requests that were let pass and of no other:
\* it is the end of the key's admissions.
OnlyAdmitted(key) ==
    LET skipped == Len(admitted[key]) - Len(request_counts[key])
    IN /\ skipped >= 0
       /\ request_counts[key] = SubSeq(admitted[key], skipped + 1, Len(admitted[key]))

\* C28: for every key (no key and the empty key each being one), no window of
\* Window ticks holds more admitted requests than the key's max_requests; the
\* key's list holds admitted requests only, a rejected one is not in it; and
\* the remaining count reported with an answer is not negative.
C28_RateLimitBound ==
    /\ \A key \in RequestKeys :
          /\ \A start \in 0..MaxTime :
                Cardinality(AdmittedIn(key, start)) <= MaxRequestsOf(key)
          /\ OnlyAdmitted(key)
    /\ reported.status = "passed" => reported.remaining >= 0

\* A free-tier key was let pass once in each of two windows and rejected in
\* between, and its list holds the later request only.
C28_Witness ==
    \E key \in RequestKeys :
        /\ MaxRequestsOf(key) = RATE_LIMIT_FREE_TIER
        /\ Len(admitted[key]) = 2
        /\ Len(request_counts[key]) = 1
        /\ reported.status = "429"

\* ------------------------------------------------------------------ C29
\* C29: whatever create, delete and renew requests the users have made, no
\* user has more than max_api_keys active API keys.
C29_ApiKeyCap ==
    \A user \in Users : Cardinality(ActiveKeysOf(user)) <= max_api_keys

\* ------------------------------------------------------------------ C30
\* What a change of the key table must be: the row of a key changes only in a
\* successful delete or renew request of its owner for that key, a delete
\* leaves it inactive, and so an inactive key becomes active again by its
\* owner's renew only.
OwnerChangesOnly ==
    \A i \in DOMAIN api_keys :
        api_keys'[i] # api_keys[i] =>
            /\ answer'.status = "ok"
            /\ answer'.user = api_keys[i].user_id
            /\ answer'.id = i
            /\ \/ answer'.op = "renew"
               \/ answer'.op = "delete" /\ ~api_keys'[i].is_active
                    /\ api_keys'[i].expires_at = api_keys[i].expires_at

\* The keys verify_api_key accepts now are active, of an active owner, and
\* expire, if at all, later than now.
AcceptsUnexpired ==
    \A key \in KeyStrings :
        VerifyOutcome(key) = "accepted" =>
            /\ key \in DOMAIN api_keys
            /\ api_keys[key].is_active
            /\ ~api_keys[key].expires_at.set \/ api_keys[key].expires_at.at > now
            /\ users[api_keys[key].user_id]

\* The same, with the time of the expiry itself allowed.
AcceptsNotYetExpired ==
    \A key \in KeyStrings :
        VerifyOutcome(key) = "accepted" =>
            /\ key \in DOMAIN api_keys
            /\ api_keys[key].is_active
            /\ ~api_keys[key].expires_at.set \/ api_keys[key].expires_at.at >= now
            /\ users[api_keys[key].user_id]

\* C30 as stated: before and after every step, verify_api_key accepts a key
\* only if it is active, its expiry is unset or later than the time of the
\* call, and its owner is active; and the rows change under their owners'
\* deletes and renews only.
C30_AcceptsFutureExpiryOnly ==
    [][AcceptsUnexpired /\ AcceptsUnexpired' /\ OwnerChangesOnly]_vars

\* C30, amended: before and after every step, verify_api_key accepts a key only if it is active, its
\* expiry is unset or not earlier than the time of the call, and its owner is
\* active; a key deactivated by delete_api_key is inactive, and so rejected,
\* until its owner renews it; and delete_api_key and renew_api_key change no
\* key of another user.
C30_KeyAcceptance ==
    [][AcceptsNotYetExpired /\ AcceptsNotYetExpired' /\ OwnerChangesOnly]_vars

\* A key that its owner deleted and renewed for zero days has been accepted at
\* the very time of its expiry, while another user holds a key too.
C30_Witness ==
    /\ answer.op = "verify" /\ answer.status = "accepted"
    /\ api_keys[answer.id].expires_at = At(now)
    /\ \E i \in DOMAIN api_keys : api_keys[i].user_id # api_keys[answer.id].user_id

====
